---- MODULE Spec2Model ----
(***************************************************************************)
(* A model of vite-plugin-icons-spritesheet (src/src/index.ts): the icon   *)
(* pipeline generateIcons -> generateSvgSprite -> generateTypes ->         *)
(* writeIfChanged, the identifier derivation fileNameToCamelCase, and the  *)
(* plugin's hooks configResolved, watchChange and handleHotUpdate.         *)
(*                                                                         *)
(* Strings are sequences of one-character strings, so that split,          *)
(* capitalisation and join are computed, not assumed.                      *)
(***************************************************************************)
EXTENDS Integers, Sequences, FiniteSets, TLC

(***************************************************************************)
(* Bounds of the model.                                                    *)
(***************************************************************************)
\* Longest stem (path without ".svg") enumerated for the derivation check.
MaxLen == 3
\* Most icon files present under the input root at one time.
MaxIcons == 2
\* Most invocations in a row that the watcher's reports of the pipeline's own
\* writes are let start.
MaxChain == 3

(***************************************************************************)
(* Characters and strings.                                                 *)
(***************************************************************************)
LowerCase == <<"a","b","c","d","e","f","g","h","i","j","k","l","m",
               "n","o","p","q","r","s","t","u","v","w","x","y","z">>
UpperCase == <<"A","B","C","D","E","F","G","H","I","J","K","L","M",
               "N","O","P","Q","R","S","T","U","V","W","X","Y","Z">>

IsLower(c) == \E i \in DOMAIN LowerCase : LowerCase[i] = c
IsUpper(c) == \E i \in DOMAIN UpperCase : UpperCase[i] = c

\* String.prototype.toUpperCase on one character.
ToUpperCase(c) ==
  IF IsLower(c) THEN UpperCase[CHOOSE i \in DOMAIN LowerCase : LowerCase[i] = c]
  ELSE c

\* String.prototype.toLowerCase on one character (case-insensitive comparison).
ToLowerCase(c) ==
  IF IsUpper(c) THEN LowerCase[CHOOSE i \in DOMAIN UpperCase : UpperCase[i] = c]
  ELSE c

\* s.slice(1)
Slice1(s) == IF Len(s) <= 1 THEN <<>> ELSE SubSeq(s, 2, Len(s))

\* s.endsWith(suffix)
EndsWith(s, suffix) ==
  /\ Len(s) >= Len(suffix)
  /\ SubSeq(s, Len(s) - Len(suffix) + 1, Len(s)) = suffix

DotSvg == <<".", "s", "v", "g">>

\* file.replace(/\.svg$/, "")
StripSvg(file) ==
  IF EndsWith(file, DotSvg) THEN SubSeq(file, 1, Len(file) - Len(DotSvg)) ELSE file

\* s.split(sep) for a one-character separator: always at least one segment,
\* empty segments kept.
RECURSIVE SplitFrom(_, _, _, _)
SplitFrom(s, sep, i, cur) ==
  IF i > Len(s) THEN <<cur>>
  ELSE IF s[i] = sep THEN <<cur>> \o SplitFrom(s, sep, i + 1, <<>>)
  ELSE SplitFrom(s, sep, i + 1, Append(cur, s[i]))

Split(s, sep) == SplitFrom(s, sep, 1, <<>>)

\* words.join("")
RECURSIVE Join(_)
Join(words) == IF words = <<>> THEN <<>> ELSE Head(words) \o Join(Tail(words))

\* word.charAt(0).toUpperCase() + word.slice(1); charAt(0) of "" is "".
CapitalizeFirst(word) ==
  IF word = <<>> THEN <<>> ELSE <<ToUpperCase(word[1])>> \o Slice1(word)

\* A plausible slip: the segments are joined without being capitalised.
JoinUncapitalized(fileName) == Join(Split(fileName, "-"))

\* fileNameToCamelCase
FileNameToCamelCase(fileName) ==
  LET words == Split(fileName, "-")
      capitalizedWords == [i \in DOMAIN words |-> CapitalizeFirst(words[i])]
  IN Join(capitalizedWords)

\* The identifier a discovered file gets, as generateSvgSprite and
\* generateIcons both compute it.
IconId(file) == FileNameToCamelCase(StripSvg(file))

(***************************************************************************)
(* What the specification says the identifier is: computed independently,  *)
(* in one pass over the base name.                                         *)
(***************************************************************************)
\* path.basename: what follows the last "/".
RECURSIVE BaseName(_)
BaseName(p) ==
  IF \E i \in DOMAIN p : p[i] = "/"
  THEN BaseName(SubSeq(p, (CHOOSE i \in DOMAIN p : p[i] = "/") + 1, Len(p)))
  ELSE p

\* One pass: drop each hyphen, uppercase the character at the start and after
\* a hyphen.
RECURSIVE CamelScan(_, _, _)
CamelScan(s, i, atStart) ==
  IF i > Len(s) THEN <<>>
  ELSE IF s[i] = "-" THEN CamelScan(s, i + 1, TRUE)
  ELSE <<(IF atStart THEN ToUpperCase(s[i]) ELSE s[i])>> \o CamelScan(s, i + 1, FALSE)

SpecifiedId(file) == CamelScan(BaseName(StripSvg(file)), 1, TRUE)

(***************************************************************************)
(* Named files.                                                            *)
(***************************************************************************)
ArrowRightSvg == <<"a","r","r","o","w","-","r","i","g","h","t",".","s","v","g">>
CloseSvg      == <<"c","l","o","s","e",".","s","v","g">>
UiCloseSvg    == <<"u","i","/","c","l","o","s","e",".","s","v","g">>
ReadmeMd      == <<"r","e","a","d","m","e",".","m","d">>

IdArrowRight == <<"A","r","r","o","w","R","i","g","h","t">>
IdClose      == <<"C","l","o","s","e">>

(***************************************************************************)
(* Variables.                                                              *)
(***************************************************************************)
VARIABLES
  \* configuration (PluginProps)
  withTypes,    \* emit the type manifest
  fileName,     \* name of the sprite file under outputDir
  cwd,          \* the working-directory override, <<>> when not given
  inputDir,     \* the input root as configured
  outputDir,    \* the output directory as configured
  \* the file system
  inFiles,      \* input root: relative path -> document
  outDirExists, \* whether outputDir exists
  outFiles,     \* outputDir: file name -> [exists, text]
  \* one invocation of generateIcons
  pc,           \* "idle", "mkdir", "reading", "w_read", "w_write", "w_catch",
                \* "done" (returned) or "failed" (rejected)
  files,        \* glob's result, in discovery order
  results,      \* per file, what its task resolved to
  doneOrder,    \* indices of the tasks in the order they completed
  stage,        \* which artifact writeIfChanged is called for
  w,            \* the running call of writeIfChanged
  err,          \* which await rejected, when pc = "failed"
  \* what an observer of the invocation sees
  calls,        \* the finished calls of writeIfChanged, in order
  log,          \* console.log lines and file-system writes, in order
  faulted,      \* an I/O operation of this invocation failed on a file that
                \* exists
  sameAsPrev,   \* this invocation follows a returned one on an unchanged input
  outAtStart,   \* the output root when this invocation started
  \* the host (Vite) and the hooks
  resolved,     \* configResolved has been called
  hostEvent,    \* the last call the host made of a hook
  started,      \* whether that call started an invocation of generateIcons
  twinStarted,  \* whether it would have, the plugin configured without cwd
  hadSprite,    \* whether the sprite was on disk when configResolved was called
  otherSprite,  \* whether a file is at the path configResolved inspects, when
                \* that is not a path the pipeline writes
  chain,        \* invocations in a row started by reports of the pipeline's
                \* own writes
  parked,       \* an invocation suspended at an await while another runs
  \* the derivation check
  nmFiles,      \* two relative paths as discovery returns them
  nmNames       \* their identifiers once derived, <<>> before

cfgVars == <<withTypes, fileName, cwd, inputDir, outputDir>>
fsVars == <<inFiles, outDirExists, outFiles>>
runVars == <<pc, files, results, doneOrder, stage, w, err>>
obsVars == <<calls, log, faulted, sameAsPrev, outAtStart>>
pipeVars == <<cfgVars, fsVars, runVars, obsVars>>
hookVars == <<resolved, hostEvent, started, twinStarted, hadSprite, otherSprite,
              chain, parked>>
nameVars == <<nmFiles, nmNames>>
vars == <<pipeVars, hookVars, nameVars>>

(***************************************************************************)
(* Paths, as the hooks compute them. Absolute paths are strings too, so    *)
(* that join and includes are computed on characters.                      *)
(***************************************************************************)
\* process.cwd(), where the host was started and relative paths resolve.
ProcessCwd == <<"/", "p">>
\* A cwd given in the plugin's options that is not process.cwd().
OtherCwd == <<"/", "q">>
\* cwd not given.
NoCwd == <<>>

IconsDir == <<"i", "c", "o", "n", "s">>
OutDir == <<"o", "u", "t">>

SpriteSvgChars == <<"s", "p", "r", "i", "t", "e", ".", "s", "v", "g">>
TypesTsChars == <<"t", "y", "p", "e", "s", ".", "t", "s">>

\* path.normalize on the paths met here: a run of "/" is one "/".
RECURSIVE Collapse(_)
Collapse(s) ==
  IF Len(s) <= 1 THEN s
  ELSE IF s[1] = "/" /\ s[2] = "/" THEN Collapse(Tail(s))
  ELSE <<s[1]>> \o Collapse(Tail(s))

RECURSIVE JoinWith(_, _)
JoinWith(parts, sep) ==
  IF parts = <<>> THEN <<>>
  ELSE IF Len(parts) = 1 THEN parts[1]
  ELSE parts[1] \o <<sep>> \o JoinWith(Tail(parts), sep)

\* path.join: the non-empty segments joined by "/", then normalised. An
\* absolute later segment does not restart the path.
PathJoin(parts) == Collapse(JoinWith(SelectSeq(parts, LAMBDA x : x # <<>>), "/"))

\* Vite's normalizePath, on posix.
NormalizePath(path) == Collapse(path)

\* s.startsWith(sub)
StartsWith(s, sub) ==
  /\ Len(s) >= Len(sub)
  /\ SubSeq(s, 1, Len(sub)) = sub

\* s.includes(sub)
Includes(s, sub) ==
  \E i \in 0..(Len(s) - Len(sub)) : SubSeq(s, i + 1, i + Len(sub)) = sub

\* How the file system resolves the path it is handed: a relative one
\* against process.cwd().
Resolve(path) ==
  IF path # <<>> /\ path[1] = "/" THEN Collapse(path)
  ELSE PathJoin(<<ProcessCwd, path>>)

\* cwd ?? process.cwd()
CwdOr(c) == IF c = NoCwd THEN ProcessCwd ELSE c

\* The sprite's name as characters.
NameChars(name) == IF name = "sprite.svg" THEN SpriteSvgChars ELSE TypesTsChars

\* configResolved: the path whose existence is tested.
OutputSvgPath(c) == NormalizePath(PathJoin(<<CwdOr(c), outputDir, NameChars(fileName)>>))

\* watchChange, handleHotUpdate: the path a reported file is matched with.
InputPath(c) == NormalizePath(PathJoin(<<CwdOr(c), inputDir>>))

\* Where generateIcons reads and writes.
InputRoot == Resolve(inputDir)
OutputRoot == Resolve(outputDir)
WritePath == Resolve(PathJoin(<<outputDir, NameChars(fileName)>>))
TypesPath == Resolve(PathJoin(<<outputDir, TypesTsChars>>))

\* The output directory is the input root.
SameDir == OutputRoot = InputRoot

\* A reported file is under the input root, or is not.
UnderInputRoot(file) == StartsWith(file, InputRoot \o <<"/">>)

(***************************************************************************)
(* Documents.                                                              *)
(***************************************************************************)
\* An icon document: whether it holds an <svg> element, that element's
\* attribute names and its inner markup.
NoFile    == [exists |-> FALSE, root |-> FALSE, attrs |-> {}, inner |-> ""]
SvgPlain  == [exists |-> TRUE, root |-> TRUE,
              attrs |-> {"xmlns", "width", "height", "viewBox"}, inner |-> "<path d=1/>"]
SvgOther  == [exists |-> TRUE, root |-> TRUE,
              attrs |-> {"id", "version", "xmlns:xlink", "fill"}, inner |-> "<path d=2/>"]
NoRootDoc == [exists |-> TRUE, root |-> FALSE, attrs |-> {}, inner |-> "plain text"]

IconDocs == {SvgPlain, SvgOther, NoRootDoc}

\* One line of an output file.
TextLine(s) == [tag |-> "text", id |-> <<>>, attrs |-> {}, inner |-> s]
UnionLine(name) == [tag |-> "union", id |-> name, attrs |-> {}, inner |-> "  | \"name\""]
ElemLine(name) == [tag |-> "elem", id |-> name, attrs |-> {}, inner |-> "  \"name\","]

Absent == [exists |-> FALSE, text |-> <<>>]
Stale  == [exists |-> TRUE, text |-> <<TextLine("stale")>>]
OnDisk(text) == [exists |-> TRUE, text |-> text]

TypesTs == "types.ts"
SpriteSvg == "sprite.svg"
OutNames == {SpriteSvg, TypesTs}

(***************************************************************************)
(* Discovery: glob.sync("**/*.svg", {cwd: inputDir}).                      *)
(***************************************************************************)
\* The directory walk visits the entries in one fixed order.
DirOrder == <<CloseSvg, ArrowRightSvg, UiCloseSvg, ReadmeMd>>
InPaths == {DirOrder[i] : i \in DOMAIN DirOrder}

\* The walk meets the sprite last, when the output directory is the input
\* root.
WalkOrder == DirOrder \o <<SpriteSvgChars>>

\* The inner markup of a sprite read back as an icon: its <defs> and, in
\* it, every symbol with the markup it holds.
RECURSIVE MarkupOf(_)
MarkupOf(lines) ==
  IF lines = <<>> THEN ""
  ELSE "<symbol>" \o Head(lines).inner \o "</symbol>" \o MarkupOf(Tail(lines))

\* An output file as parse() and querySelector("svg") see it: a sprite has a
\* root <svg> with the attributes generateSvgSprite gave it, any other file
\* has none.
DocOfOut(f) ==
  IF ~f.exists THEN NoFile
  ELSE IF \E k \in DOMAIN f.text : f.text[k] = TextLine("<defs>")
    THEN [exists |-> TRUE, root |-> TRUE,
          attrs |-> {"xmlns", "xmlns:xlink", "width", "height"},
          inner |-> "<defs>"
                    \o MarkupOf(SelectSeq(f.text, LAMBDA l : l.tag = "symbol"))
                    \o "</defs>"]
  ELSE NoRootDoc

\* What is under the input root: the icon files and, when the output
\* directory is the input root, the sprite.svg written there.
InputView(dir, out) ==
  [p \in InPaths \cup {SpriteSvgChars} |->
     IF p \in InPaths THEN dir[p]
     ELSE IF SameDir THEN DocOfOut(out[SpriteSvg])
     ELSE NoFile]

\* A plausible slip: every file matches.
GlobAll(dir) == SelectSeq(WalkOrder, LAMBDA p : dir[p].exists)

Glob(dir) == SelectSeq(WalkOrder, LAMBDA p : dir[p].exists /\ EndsWith(p, DotSvg))

\* A plausible slip: the test is inverted or dropped, so an empty set goes on.
NeverEmpty(fs) == FALSE

\* files.length === 0
NoFilesFound(fs) == Len(fs) = 0

(***************************************************************************)
(* Symbol normalisation and composition (generateSvgSprite).               *)
(***************************************************************************)
RemovedAttrs == {"xmlns", "xmlns:xlink", "version", "width", "height"}

Pending == [st |-> "pending", line |-> TextLine("")]
Skipped == [st |-> "skipped", line |-> TextLine("")]
Resolved(line) == [st |-> "symbol", line |-> line]

\* A plausible slip: one of the five removeAttribute calls is missing.
NormalizeKeepsVersion(doc, id) ==
  [tag |-> "symbol", id |-> id,
   attrs |-> (doc.attrs \ {"xmlns", "xmlns:xlink", "width", "height"}) \cup {"id"},
   inner |-> doc.inner]

\* svg.tagName = "symbol"; setAttribute("id", ...); removeAttribute(...) x5
Normalize(doc, id) ==
  [tag |-> "symbol", id |-> id,
   attrs |-> (doc.attrs \ RemovedAttrs) \cup {"id"}, inner |-> doc.inner]

\* A plausible slip: the results are collected as the tasks complete.
CollectByCompletion(res, order) == [k \in DOMAIN order |-> res[order[k]]]

\* Promise.all: the results in the order of the promises, whatever the order
\* they settled in.
PromiseAll(res, order) == [k \in DOMAIN res |-> res[k]]

\* A plausible slip: a skipped file leaves an empty line in the sprite.
KeepAll(symbols) == [k \in DOMAIN symbols |-> symbols[k].line]

\* symbols.filter(Boolean)
FilterBoolean(symbols) ==
  LET kept == SelectSeq(symbols, LAMBDA r : r.st = "symbol")
  IN [k \in DOMAIN kept |-> kept[k].line]

SpriteText(symbols) ==
  <<TextLine("<?xml version=\"1.0\" encoding=\"UTF-8\"?>"),
    TextLine("<svg xmlns xmlns:xlink width=\"0\" height=\"0\">"),
    TextLine("<defs>")>>
  \o FilterBoolean(symbols)
  \o <<TextLine("</defs>"), TextLine("</svg>")>>

\* generateTypes' output
TypesText(names) ==
  <<TextLine("// This file is generated by icon spritesheet generator"),
    TextLine(""),
    TextLine("export type IconName =")>>
  \o [k \in DOMAIN names |-> UnionLine(names[k])]
  \o <<TextLine(""), TextLine("export const iconNames = [")>>
  \o [k \in DOMAIN names |-> ElemLine(names[k])]
  \o <<TextLine("] as const"), TextLine("")>>

\* files.map((file) => fileNameToCamelCase(file.replace(/\.svg$/, "")))
NamesOf(fs) == [k \in DOMAIN fs |-> IconId(fs[k])]

(***************************************************************************)
(* writeIfChanged.                                                         *)
(***************************************************************************)
NoCall == [stage |-> "none", path |-> "", new |-> <<>>, before |-> Absent,
           readOk |-> FALSE, tries |-> 0, fails |-> 0, oks |-> 0, notes |-> 0,
           threw |-> FALSE, after |-> Absent]

NewCall(st, path, text, disk) ==
  [NoCall EXCEPT !.stage = st, !.path = path, !.new = text,
                 !.before = disk[path], !.after = disk[path]]

\* A plausible slip: the comparison is inverted.
InvertedChanged(currentContent, newContent) == currentContent = newContent

\* A plausible slip: the comparison is dropped and every call writes.
AlwaysChanged(currentContent, newContent) == TRUE

\* currentContent !== newContent
Changed(currentContent, newContent) == currentContent # newContent

WriteEvent(path) == [ev |-> "write", what |-> path, about |-> <<>>]
NotifyEvent(st)  == [ev |-> "notify", what |-> st, about |-> <<>>]
NoSvgFilesWarning == [ev |-> "warn", what |-> "No SVG files found", about |-> <<>>]
NoSvgTagWarning(f) == [ev |-> "warn", what |-> "No SVG tag found", about |-> f]

\* A plausible slip: the message is logged before the file is written.
NotifyThenWrite(path, st) == <<NotifyEvent(st), WriteEvent(path)>>

\* await fs.writeFile(...); console.log(message)
WriteThenNotify(path, st) == <<WriteEvent(path), NotifyEvent(st)>>

\* A plausible slip: generateTypes is called whatever withTypes says.
ReturnedTypesAlways(call, disk) ==
  /\ calls' = Append(calls, call)
  /\ IF call.stage = "sprite"
       THEN /\ stage' = "types"
            /\ w' = [stage |-> "types", path |-> "types.ts",
                     new |-> <<>>, before |-> disk["types.ts"],
                     readOk |-> FALSE, tries |-> 0, fails |-> 0, oks |-> 0,
                     notes |-> 0, threw |-> FALSE, after |-> disk["types.ts"]]
            /\ pc' = "w_read"
       ELSE /\ stage' = stage
            /\ w' = [stage |-> "none", path |-> "", new |-> <<>>,
                     before |-> [exists |-> FALSE, text |-> <<>>],
                     readOk |-> FALSE, tries |-> 0, fails |-> 0, oks |-> 0,
                     notes |-> 0, threw |-> FALSE,
                     after |-> [exists |-> FALSE, text |-> <<>>]]
            /\ pc' = "done"

\* What follows a call of writeIfChanged that returned: generateTypes when
\* the sprite was written and withTypes is set, else generateIcons returns.
Returned(call, disk) ==
  /\ calls' = Append(calls, call)
  /\ IF call.stage = "sprite" /\ withTypes
       THEN /\ stage' = "types"
            /\ w' = NewCall("types", TypesTs, TypesText(NamesOf(files)), disk)
            /\ pc' = "w_read"
       ELSE /\ stage' = stage
            /\ w' = NoCall
            /\ pc' = "done"

\* The tasks have all resolved: compose the sprite and call writeIfChanged.
Compose(res, order) ==
  /\ stage' = "sprite"
  /\ w' = NewCall("sprite", fileName, SpriteText(PromiseAll(res, order)), outFiles)
  /\ pc' = "w_read"

(***************************************************************************)
(* The pipeline, one action per step between two awaits.                   *)
(***************************************************************************)
Idle == pc \in {"idle", "done", "failed"}

\* generateIcons is called on the input root dir: discovery, and the return
\* on an empty set. same says that the call follows a returned one on an
\* unchanged input.
GenerateIcons(dir, same) ==
  /\ files' = Glob(dir)
  /\ results' = [k \in DOMAIN files' |-> Pending]
  /\ doneOrder' = <<>>
  /\ calls' = <<>>
  /\ err' = "none"
  /\ faulted' = FALSE
  /\ sameAsPrev' = same
  /\ outAtStart' = [dir |-> outDirExists, files |-> outFiles]
  /\ w' = NoCall
  /\ stage' = "none"
  /\ IF NoFilesFound(files')
       THEN /\ log' = <<NoSvgFilesWarning>>
            /\ pc' = "done"
       ELSE /\ log' = <<>>
            /\ pc' = "mkdir"

\* generateIcons is called, by whichever caller, when none is in progress.
Start ==
  /\ Idle
  /\ GenerateIcons(InputView(inFiles, outFiles), pc = "done")
  /\ UNCHANGED <<cfgVars, fsVars, nameVars, hookVars>>

\* await mkdir(outputDirRelative, {recursive: true}) resolves; the tasks of
\* generateSvgSprite are issued.
MkdirOk ==
  /\ pc = "mkdir"
  /\ outDirExists' = TRUE
  /\ IF files = <<>>
       THEN Compose(results, doneOrder)
       ELSE /\ pc' = "reading"
            /\ UNCHANGED <<stage, w>>
  /\ UNCHANGED <<cfgVars, inFiles, outFiles, files, results, doneOrder, err,
                 obsVars, nameVars, hookVars>>

\* await mkdir(...) rejects.
MkdirFail ==
  /\ pc = "mkdir"
  /\ pc' = "failed"
  /\ err' = "mkdir"
  /\ faulted' = TRUE
  /\ UNCHANGED <<cfgVars, fsVars, files, results, doneOrder, stage, w,
                 calls, log, sameAsPrev, outAtStart, nameVars, hookVars>>

\* The task of file i: its readFile resolves, the document is parsed and
\* normalised or skipped. The last task to resolve resolves Promise.all.
TaskDone(i) ==
  /\ pc = "reading"
  /\ i \in DOMAIN files
  /\ results[i].st = "pending"
  /\ InputView(inFiles, outFiles)[files[i]].exists
  /\ LET doc == InputView(inFiles, outFiles)[files[i]]
         res == [results EXCEPT
                   ![i] = IF doc.root THEN Resolved(Normalize(doc, IconId(files[i])))
                          ELSE Skipped]
         order == Append(doneOrder, i)
     IN /\ results' = res
        /\ doneOrder' = order
        /\ log' = IF doc.root THEN log ELSE Append(log, NoSvgTagWarning(files[i]))
        /\ IF \A k \in DOMAIN res : res[k].st # "pending"
             THEN Compose(res, order)
             ELSE UNCHANGED <<pc, stage, w>>
  /\ UNCHANGED <<cfgVars, fsVars, files, err, calls, faulted, sameAsPrev,
                 outAtStart, nameVars, hookVars>>

\* The task of file i: its readFile rejects, and with it Promise.all,
\* generateSvgSprite and generateIcons.
TaskFail(i) ==
  /\ pc = "reading"
  /\ i \in DOMAIN files
  /\ results[i].st = "pending"
  /\ pc' = "failed"
  /\ err' = "read"
  /\ faulted' = TRUE
  /\ UNCHANGED <<cfgVars, fsVars, files, results, doneOrder, stage, w,
                 calls, log, sameAsPrev, outAtStart, nameVars, hookVars>>

\* writeIfChanged: readFile resolves and the contents are compared.
ReadOk ==
  /\ pc = "w_read"
  /\ outFiles[w.path].exists
  /\ LET call == [w EXCEPT !.readOk = TRUE]
     IN IF Changed(outFiles[w.path].text, w.new)
          THEN /\ w' = call
               /\ pc' = "w_write"
               /\ UNCHANGED <<calls, stage>>
          ELSE Returned(call, outFiles)
  /\ UNCHANGED <<cfgVars, fsVars, files, results, doneOrder, err, log, faulted,
                 sameAsPrev, outAtStart, nameVars, hookVars>>

\* writeIfChanged: readFile rejects (no such file, or any other reason).
ReadFail ==
  /\ pc = "w_read"
  /\ pc' = "w_catch"
  /\ faulted' = (faulted \/ outFiles[w.path].exists)
  /\ UNCHANGED <<cfgVars, fsVars, files, results, doneOrder, stage, w, err,
                 calls, log, sameAsPrev, outAtStart, nameVars, hookVars>>

\* writeFile resolves, in the try block or in the catch block.
WriteOk ==
  /\ pc \in {"w_write", "w_catch"}
  /\ outFiles' = [outFiles EXCEPT ![w.path] = OnDisk(w.new)]
  /\ log' = log \o WriteThenNotify(w.path, w.stage)
  /\ Returned([w EXCEPT !.tries = @ + 1, !.oks = @ + 1, !.notes = @ + 1,
                        !.after = OnDisk(w.new)], outFiles')
  /\ UNCHANGED <<cfgVars, inFiles, outDirExists, files, results, doneOrder, err,
                 faulted, sameAsPrev, outAtStart, nameVars, hookVars>>

\* writeFile rejects in the try block: the catch block takes the rejection.
WriteFailInTry ==
  /\ pc = "w_write"
  /\ w' = [w EXCEPT !.tries = @ + 1, !.fails = @ + 1]
  /\ pc' = "w_catch"
  /\ faulted' = TRUE
  /\ UNCHANGED <<cfgVars, fsVars, files, results, doneOrder, stage, err,
                 calls, log, sameAsPrev, outAtStart, nameVars, hookVars>>

\* writeFile rejects in the catch block: writeIfChanged rejects, and with it
\* generateIcons.
WriteFailInCatch ==
  /\ pc = "w_catch"
  /\ calls' = Append(calls, [w EXCEPT !.tries = @ + 1, !.fails = @ + 1, !.threw = TRUE])
  /\ w' = NoCall
  /\ pc' = "failed"
  /\ err' = "write"
  /\ faulted' = TRUE
  /\ UNCHANGED <<cfgVars, fsVars, files, results, doneOrder, stage,
                 log, sameAsPrev, outAtStart, nameVars, hookVars>>

(***************************************************************************)
(* The author of the icons, between invocations. A finished invocation's   *)
(* locals are gone by then, so an edit leaves pc = "idle": the next        *)
(* invocation does not follow a returned one on an unchanged input.        *)
(***************************************************************************)
IconPaths == {p \in InPaths : EndsWith(p, DotSvg)}

IconCount == Cardinality({p \in IconPaths : inFiles[p].exists})

\* The documents a path is given.
DocsFor(p) ==
  IF p = CloseSvg THEN IconDocs
  ELSE IF p = ArrowRightSvg THEN {SvgPlain, NoRootDoc}
  ELSE {SvgOther}

\* Nothing is left of the invocation that returned.
Forgotten ==
  /\ pc' = "idle"
  /\ files' = <<>>
  /\ results' = <<>>
  /\ doneOrder' = <<>>
  /\ stage' = "none"
  /\ w' = NoCall
  /\ err' = "none"
  /\ calls' = <<>>
  /\ log' = <<>>
  /\ faulted' = FALSE
  /\ sameAsPrev' = FALSE
  /\ outAtStart' = [dir |-> outDirExists, files |-> outFiles]

Edited(dir) ==
  /\ inFiles' = dir
  /\ Forgotten
  /\ UNCHANGED <<cfgVars, outDirExists, outFiles, nameVars, hookVars>>

UserCreate(p, doc) ==
  /\ Idle
  /\ ~inFiles[p].exists
  /\ IconCount < MaxIcons
  /\ Edited([inFiles EXCEPT ![p] = doc])

UserDelete(p) ==
  /\ Idle
  /\ inFiles[p].exists
  /\ Edited([inFiles EXCEPT ![p] = NoFile])

UserModify(p, doc) ==
  /\ Idle
  /\ inFiles[p].exists
  /\ inFiles[p] # doc
  /\ Edited([inFiles EXCEPT ![p] = doc])

(***************************************************************************)
(* The specification of the pipeline.                                      *)
(***************************************************************************)
NoEvent == [hook |-> "none", file |-> <<>>, event |-> "", own |-> FALSE]

\* No invocation is suspended.
NoInv == [pc |-> "none", files |-> <<>>, results |-> <<>>, doneOrder |-> <<>>,
          stage |-> "none", w |-> NoCall, err |-> "none", calls |-> <<>>,
          log |-> <<>>, faulted |-> FALSE, sameAsPrev |-> FALSE,
          outAtStart |-> [dir |-> FALSE, files |-> [n \in OutNames |-> Absent]]]

\* The plugin object is made; the host has called none of its hooks.
NoHookCalled ==
  /\ resolved = FALSE
  /\ hostEvent = NoEvent
  /\ started = FALSE
  /\ twinStarted = FALSE
  /\ hadSprite = FALSE
  /\ chain = 0
  /\ parked = NoInv

Init ==
  /\ withTypes \in BOOLEAN
  /\ fileName \in OutNames
  /\ cwd = NoCwd
  /\ inputDir = IconsDir
  /\ outputDir = OutDir
  /\ otherSprite = FALSE
  /\ NoHookCalled
  /\ inFiles = [p \in InPaths |-> IF p \in IconPaths THEN NoFile ELSE NoRootDoc]
  /\ outDirExists \in BOOLEAN
  /\ outFiles \in [OutNames -> {Absent, Stale}]
  /\ outDirExists \/ outFiles = [n \in OutNames |-> Absent]
  /\ pc = "idle"
  /\ files = <<>>
  /\ results = <<>>
  /\ doneOrder = <<>>
  /\ stage = "none"
  /\ w = NoCall
  /\ err = "none"
  /\ calls = <<>>
  /\ log = <<>>
  /\ faulted = FALSE
  /\ sameAsPrev = FALSE
  /\ outAtStart = [dir |-> outDirExists, files |-> outFiles]
  /\ nmFiles = <<>>
  /\ nmNames = <<>>

Next ==
  \/ Start
  \/ MkdirOk
  \/ MkdirFail
  \/ \E i \in DOMAIN DirOrder : TaskDone(i)
  \/ \E i \in DOMAIN DirOrder : TaskFail(i)
  \/ ReadOk
  \/ ReadFail
  \/ WriteOk
  \/ WriteFailInTry
  \/ WriteFailInCatch
  \/ \E p \in IconPaths : \E doc \in DocsFor(p) : UserCreate(p, doc)
  \/ \E p \in IconPaths : UserDelete(p)
  \/ \E p \in IconPaths : \E doc \in DocsFor(p) : UserModify(p, doc)

Spec == Init /\ [][Next]_vars

(***************************************************************************)
(* The hooks, called by the host. The watcher reports a change of a file   *)
(* of the input root as the author makes it, and the pipeline's own writes *)
(* once the invocation that made them has returned; here the host makes    *)
(* one call at a time and waits for it.                                    *)
(***************************************************************************)
HostCall(hook, file, event, own) ==
  [hook |-> hook, file |-> file, event |-> event, own |-> own]

\* fs.access(path, F_OK)
ExistsAt(path) ==
  IF path = WritePath THEN outFiles[fileName].exists
  ELSE IF path = TypesPath THEN outFiles[TypesTs].exists
  ELSE otherSprite

\* configResolved: !outputSvgExists
ConfigResolvedStarts(c) == ~ExistsAt(OutputSvgPath(c))

\* watchChange: the test before generateIcons
WatchChangeStarts(c, file, event) ==
  /\ Includes(file, InputPath(c))
  /\ EndsWith(file, DotSvg)
  /\ event \in {"create", "delete"}

\* handleHotUpdate: the test before generateIcons
HandleHotUpdateStarts(c, file) ==
  /\ Includes(file, InputPath(c))
  /\ EndsWith(file, DotSvg)

HookStarts(c, hook, file, event) ==
  IF hook = "watchChange" THEN WatchChangeStarts(c, file, event)
  ELSE HandleHotUpdateStarts(c, file)

\* The hook calls generateIcons({withTypes, inputDir, outputDir, fileName}),
\* cwd left out, or returns without.
Hooked(starts, dir, same) ==
  IF starts THEN GenerateIcons(InputView(dir, outFiles), same)
  ELSE IF dir # inFiles THEN Forgotten
  ELSE UNCHANGED <<runVars, obsVars>>

ConfigResolved ==
  /\ ~resolved
  /\ resolved' = TRUE
  /\ hostEvent' = HostCall("configResolved", OutputSvgPath(cwd), "", FALSE)
  /\ started' = ConfigResolvedStarts(cwd)
  /\ twinStarted' = ConfigResolvedStarts(NoCwd)
  /\ hadSprite' = outFiles[fileName].exists
  /\ chain' = 0
  /\ Hooked(started', inFiles, FALSE)
  /\ UNCHANGED <<cfgVars, fsVars, otherSprite, parked, nameVars>>

\* The host reports file to the hook; dir is the input root by then. Where
\* the output directory is the input root every invocation embeds the sprite
\* before it in the new one, without end: there the reports explored are
\* those of the pipeline's own writes, MaxChain of them.
Reported(hook, file, event, own, dir, same) ==
  /\ resolved
  /\ Idle
  /\ parked = NoInv
  /\ SameDir => own
  /\ hostEvent' = HostCall(hook, file, event, own)
  /\ started' = HookStarts(cwd, hook, file, event)
  /\ twinStarted' = HookStarts(NoCwd, hook, file, event)
  /\ chain' = IF ~own THEN 0 ELSE IF started' THEN chain + 1 ELSE chain
  /\ inFiles' = dir
  /\ Hooked(started', dir, same)
  /\ UNCHANGED <<cfgVars, outDirExists, outFiles, resolved, hadSprite,
                 otherSprite, parked, nameVars>>

\* The documents the author gives a path while the host runs.
PluginDocsFor(p) == IF p = CloseSvg THEN {SvgPlain, NoRootDoc} ELSE {SvgPlain}

PluginIconPaths == {CloseSvg, ArrowRightSvg}

IconCreated(p, doc) ==
  /\ ~inFiles[p].exists
  /\ IconCount < MaxIcons
  /\ Reported("watchChange", PathJoin(<<InputRoot, p>>), "create", FALSE,
              [inFiles EXCEPT ![p] = doc], FALSE)

IconDeleted(p) ==
  /\ inFiles[p].exists
  /\ Reported("watchChange", PathJoin(<<InputRoot, p>>), "delete", FALSE,
              [inFiles EXCEPT ![p] = NoFile], FALSE)

IconChanged(p, doc) ==
  /\ inFiles[p].exists
  /\ inFiles[p] # doc
  /\ Reported("handleHotUpdate", PathJoin(<<InputRoot, p>>), "update", FALSE,
              [inFiles EXCEPT ![p] = doc], FALSE)

\* Files that are not icons of the input root: a .svg in a sibling directory
\* whose name starts like the input root's, a .svg under the cwd override,
\* and a file of the input root that is no .svg.
SiblingSvg == PathJoin(<<ProcessCwd, IconsDir \o <<"-", "o", "l", "d">>, CloseSvg>>)
OverrideSvg == PathJoin(<<OtherCwd, IconsDir, CloseSvg>>)
ReadmeUnderRoot == PathJoin(<<ProcessCwd, IconsDir, ReadmeMd>>)
OtherFiles == {SiblingSvg, OverrideSvg, ReadmeUnderRoot}

OtherFileReported(file, event) ==
  /\ file \in OtherFiles
  /\ Reported(IF event = "update" THEN "handleHotUpdate" ELSE "watchChange",
              file, event, FALSE, inFiles, pc = "done")

\* The watcher reports a file the invocation that returned has written:
\* created if it was not there before, changed if it was.
OwnWriteReported(name) ==
  /\ WriteEvent(name) \in {log[k] : k \in DOMAIN log}
  /\ chain < MaxChain
  /\ LET existed == outAtStart.files[name].exists
     IN Reported(IF existed THEN "handleHotUpdate" ELSE "watchChange",
                 PathJoin(<<OutputRoot, NameChars(name)>>),
                 IF existed THEN "update" ELSE "create",
                 TRUE, inFiles, pc = "done")

\* writeIfChanged: readFile rejects, there being no such file.
ReadMissing ==
  /\ pc = "w_read"
  /\ ~outFiles[w.path].exists
  /\ ReadFail

Layouts == {<<IconsDir, OutDir>>, <<IconsDir, IconsDir>>,
            <<PathJoin(<<ProcessCwd, IconsDir>>), OutDir>>}

PluginInit ==
  /\ withTypes \in BOOLEAN
  /\ fileName = SpriteSvg
  /\ cwd \in {NoCwd, OtherCwd}
  /\ \E l \in Layouts : inputDir = l[1] /\ outputDir = l[2]
  /\ otherSprite \in BOOLEAN
  /\ (OutputSvgPath(cwd) = WritePath) => ~otherSprite
  /\ NoHookCalled
  /\ inFiles \in {[p \in InPaths |-> IF p = ReadmeMd THEN NoRootDoc ELSE NoFile],
                  [p \in InPaths |-> IF p = ReadmeMd THEN NoRootDoc
                                     ELSE IF p = CloseSvg THEN SvgPlain ELSE NoFile]}
  /\ outFiles \in {[n \in OutNames |-> Absent],
                   [n \in OutNames |-> IF n = SpriteSvg THEN Stale ELSE Absent]}
  /\ outDirExists = (SameDir \/ outFiles[SpriteSvg].exists)
  /\ pc = "idle"
  /\ files = <<>>
  /\ results = <<>>
  /\ doneOrder = <<>>
  /\ stage = "none"
  /\ w = NoCall
  /\ err = "none"
  /\ calls = <<>>
  /\ log = <<>>
  /\ faulted = FALSE
  /\ sameAsPrev = FALSE
  /\ outAtStart = [dir |-> outDirExists, files |-> outFiles]
  /\ nmFiles = <<>>
  /\ nmNames = <<>>

PluginNext ==
  \/ ConfigResolved
  \/ \E p \in PluginIconPaths : \E doc \in PluginDocsFor(p) : IconCreated(p, doc)
  \/ \E p \in PluginIconPaths : IconDeleted(p)
  \/ \E p \in PluginIconPaths : \E doc \in PluginDocsFor(p) : IconChanged(p, doc)
  \/ \E f \in OtherFiles : \E e \in {"create", "delete", "update"} :
       OtherFileReported(f, e)
  \/ \E n \in OutNames : OwnWriteReported(n)
  \/ MkdirOk
  \/ \E i \in DOMAIN WalkOrder : TaskDone(i)
  \/ ReadOk
  \/ ReadMissing
  \/ WriteOk

SpecPlugin == PluginInit /\ [][PluginNext]_vars

(***************************************************************************)
(* The hooks, called by a host that does not wait: the watcher's report    *)
(* of a second file reaches a hook while the invocation started for the    *)
(* first is suspended at an await. The hooks hold no lock and no queue, so *)
(* the second invocation starts and the two take turns at their awaits.    *)
(***************************************************************************)
InProgress(at) == at \in {"mkdir", "reading", "w_read", "w_write", "w_catch"}

\* The locals of the invocation that runs, to be resumed later.
Suspended ==
  [pc |-> pc, files |-> files, results |-> results, doneOrder |-> doneOrder,
   stage |-> stage, w |-> w, err |-> err, calls |-> calls, log |-> log,
   faulted |-> faulted, sameAsPrev |-> sameAsPrev, outAtStart |-> outAtStart]

\* The host reports file to the hook while an invocation is in progress.
ReportedDuringRun(hook, file, event, dir) ==
  /\ resolved
  /\ InProgress(pc)
  /\ parked = NoInv
  /\ hostEvent' = HostCall(hook, file, event, FALSE)
  /\ started' = HookStarts(cwd, hook, file, event)
  /\ twinStarted' = HookStarts(NoCwd, hook, file, event)
  /\ chain' = 0
  /\ inFiles' = dir
  /\ IF started'
       THEN /\ parked' = Suspended
            /\ GenerateIcons(InputView(dir, outFiles), FALSE)
       ELSE UNCHANGED <<parked, runVars, obsVars>>
  /\ UNCHANGED <<cfgVars, outDirExists, outFiles, resolved, hadSprite,
                 otherSprite, nameVars>>

IconCreatedDuringRun(p, doc) ==
  /\ ~inFiles[p].exists
  /\ IconCount < MaxIcons
  /\ ReportedDuringRun("watchChange", PathJoin(<<InputRoot, p>>), "create",
                       [inFiles EXCEPT ![p] = doc])

IconChangedDuringRun(p, doc) ==
  /\ inFiles[p].exists
  /\ inFiles[p] # doc
  /\ ReportedDuringRun("handleHotUpdate", PathJoin(<<InputRoot, p>>), "update",
                       [inFiles EXCEPT ![p] = doc])

\* The suspended invocation's await settles and it goes on; the one that
\* ran is suspended at its own await, or has returned.
Resume ==
  /\ InProgress(parked.pc)
  /\ pc' = parked.pc
  /\ files' = parked.files
  /\ results' = parked.results
  /\ doneOrder' = parked.doneOrder
  /\ stage' = parked.stage
  /\ w' = parked.w
  /\ err' = parked.err
  /\ calls' = parked.calls
  /\ log' = parked.log
  /\ faulted' = parked.faulted
  /\ sameAsPrev' = parked.sameAsPrev
  /\ outAtStart' = parked.outAtStart
  /\ parked' = IF InProgress(pc) THEN Suspended ELSE NoInv
  /\ UNCHANGED <<cfgVars, fsVars, resolved, hostEvent, started, twinStarted,
                 hadSprite, otherSprite, chain, nameVars>>

ConcInit ==
  /\ PluginInit
  /\ ~withTypes
  /\ cwd = NoCwd
  /\ inputDir = IconsDir
  /\ outputDir = OutDir

ConcNext ==
  \/ ConfigResolved
  \/ \E p \in PluginIconPaths : \E doc \in PluginDocsFor(p) : IconCreated(p, doc)
  \/ \E p \in PluginIconPaths : IconDeleted(p)
  \/ \E p \in PluginIconPaths : \E doc \in PluginDocsFor(p) : IconChanged(p, doc)
  \/ \E p \in PluginIconPaths : \E doc \in PluginDocsFor(p) :
       IconCreatedDuringRun(p, doc)
  \/ \E p \in PluginIconPaths : \E doc \in PluginDocsFor(p) :
       IconChangedDuringRun(p, doc)
  \/ Resume
  \/ MkdirOk
  \/ \E i \in DOMAIN WalkOrder : TaskDone(i)
  \/ ReadOk
  \/ ReadMissing
  \/ WriteOk

SpecConc == ConcInit /\ [][ConcNext]_vars

(***************************************************************************)
(* Identifier derivation on enumerated paths.                              *)
(***************************************************************************)
StemChars == {"a", "B", "1", "-", "/"}

RECURSIVE SeqsOfLen(_, _)
SeqsOfLen(S, n) ==
  IF n = 0 THEN {<<>>}
  ELSE {Append(s, c) : s \in SeqsOfLen(S, n - 1), c \in S}

Stems == UNION {SeqsOfLen(StemChars, n) : n \in 1..MaxLen}

\* A relative path never starts or ends with "/" and has no empty component.
IsRelPath(s) ==
  /\ s[1] # "/"
  /\ s[Len(s)] # "/"
  /\ \A i \in 1..(Len(s) - 1) : ~(s[i] = "/" /\ s[i + 1] = "/")

\* A base name holds no directory separator.
IsBaseName(s) == \A i \in DOMAIN s : s[i] # "/"

DiscoverablePaths ==
  {s \o DotSvg : s \in {t \in Stems : IsRelPath(t)}}
    \cup {ArrowRightSvg, CloseSvg, UiCloseSvg}

FlatPaths == {p \in DiscoverablePaths : IsBaseName(p)}

NamesInit ==
  /\ nmFiles \in {<<p, q>> : p \in DiscoverablePaths, q \in FlatPaths}
  /\ nmNames = <<>>
  /\ withTypes = FALSE
  /\ fileName = SpriteSvg
  /\ cwd = NoCwd
  /\ inputDir = IconsDir
  /\ outputDir = OutDir
  /\ otherSprite = FALSE
  /\ NoHookCalled
  /\ inFiles = [p \in InPaths |-> NoFile]
  /\ outDirExists = FALSE
  /\ outFiles = [n \in OutNames |-> Absent]
  /\ pc = "idle"
  /\ files = <<>>
  /\ results = <<>>
  /\ doneOrder = <<>>
  /\ stage = "none"
  /\ w = NoCall
  /\ err = "none"
  /\ calls = <<>>
  /\ log = <<>>
  /\ faulted = FALSE
  /\ sameAsPrev = FALSE
  /\ outAtStart = [dir |-> FALSE, files |-> [n \in OutNames |-> Absent]]

\* files.map((file) => fileNameToCamelCase(file.replace(/\.svg$/, "")))
DeriveIds ==
  /\ nmNames = <<>>
  /\ nmNames' = NamesOf(nmFiles)
  /\ UNCHANGED <<nmFiles, pipeVars, hookVars>>

NamesNext == DeriveIds

SpecNames == NamesInit /\ [][NamesNext]_vars

(***************************************************************************)
(* Claims about the identifier derivation (under SpecNames).               *)
(***************************************************************************)
LowerStr(s) == [i \in DOMAIN s |-> ToLowerCase(s[i])]

\* Every hyphen-separated segment is non-empty, starts with a lowercase
\* letter and holds no uppercase letter.
LowerKebab(s) ==
  /\ IsBaseName(s)
  /\ \A seg \in {Split(s, "-")[i] : i \in DOMAIN Split(s, "-")} :
       /\ seg # <<>>
       /\ IsLower(seg[1])
       /\ \A k \in DOMAIN seg : ~IsUpper(seg[k])

\* Every hyphen-separated segment is non-empty and made of lowercase letters
\* and digits: the narrowest reading of "hyphen-delimited".
AlnumKebab(s) ==
  /\ IsBaseName(s)
  /\ \A seg \in {Split(s, "-")[i] : i \in DOMAIN Split(s, "-")} :
       /\ seg # <<>>
       /\ \A k \in DOMAIN seg : ~IsUpper(seg[k])

\* Every directory and the base name are made of non-empty segments of
\* lowercase letters and digits.
OrdinaryPath(p) ==
  \A c \in {Split(p, "/")[i] : i \in DOMAIN Split(p, "/")} : AlnumKebab(c)

\* C8 (as claimed): every discovered path, nested ones included, gets the
\* identifier of its base name alone: extension removed, split on "-", each
\* segment's first character uppercased, segments concatenated.
C8_IdFromBaseName ==
  nmNames # <<>> =>
    \A i \in DOMAIN nmFiles :
      OrdinaryPath(StripSvg(nmFiles[i])) => nmNames[i] = SpecifiedId(nmFiles[i])

\* C9 (as claimed): two hyphen-delimited base names that differ, also when
\* compared case-insensitively, never get the same identifier.
C9_Injective ==
  (/\ nmNames # <<>>
   /\ AlnumKebab(StripSvg(nmFiles[1]))
   /\ AlnumKebab(StripSvg(nmFiles[2]))
   /\ LowerStr(nmFiles[1]) # LowerStr(nmFiles[2]))
    => nmNames[1] # nmNames[2]

\* C9 (amended): two distinct base names whose hyphen-separated segments are
\* all non-empty, start with a lowercase letter and hold no uppercase letter
\* never get the same identifier.
C9_InjectiveOnLowerKebab ==
  (/\ nmNames # <<>>
   /\ LowerKebab(StripSvg(nmFiles[1]))
   /\ LowerKebab(StripSvg(nmFiles[2]))
   /\ nmFiles[1] # nmFiles[2])
    => nmNames[1] # nmNames[2]

\* Two distinct lower-kebab names, one of them with a hyphen, whose derived
\* identifiers differ only by the case the hyphen left behind.
C9_Witness ==
  /\ nmNames # <<>>
  /\ LowerKebab(StripSvg(nmFiles[1]))
  /\ LowerKebab(StripSvg(nmFiles[2]))
  /\ nmFiles[1] # nmFiles[2]
  /\ Len(Split(StripSvg(nmFiles[1]), "-")) > 1
  /\ LowerStr(nmNames[1]) = LowerStr(nmNames[2])
  /\ nmNames[1] # nmNames[2]

(***************************************************************************)
(* Claims about the pipeline (under Spec).                                 *)
(***************************************************************************)
Range(seq) == {seq[k] : k \in DOMAIN seq}
NoDuplicates(seq) == \A j, k \in DOMAIN seq : seq[j] = seq[k] => j = k

\* The finished calls of writeIfChanged and the running one.
AllCalls == IF w.stage = "none" THEN calls ELSE Append(calls, w)

SymbolsIn(text) == SelectSeq(text, LAMBDA l : l.tag = "symbol")
IdsOf(lines) == [k \in DOMAIN lines |-> lines[k].id]
SymbolIds(text) == IdsOf(SymbolsIn(text))
ManifestIds(text) == IdsOf(SelectSeq(text, LAMBDA l : l.tag = "union"))
ManifestElems(text) == IdsOf(SelectSeq(text, LAMBDA l : l.tag = "elem"))

\* The discovered files that hold a root <svg> element, in discovery order,
\* and those that do not.
Rooted == SelectSeq(files, LAMBDA f : inFiles[f].root)
Rootless == {k \in DOMAIN files : ~inFiles[files[k]].root}

WritesIn(l) == Len(SelectSeq(l, LAMBDA e : e.ev = "write"))
NotifiesIn(l) == Len(SelectSeq(l, LAMBDA e : e.ev = "notify"))

\* The invocation left the output root as it found it and said nothing of a
\* write.
NothingWritten ==
  /\ \A k \in DOMAIN calls : calls[k].tries = 0
  /\ WritesIn(log) = 0
  /\ NotifiesIn(log) = 0
  /\ outFiles = outAtStart.files
  /\ outDirExists = outAtStart.dir

\* C1 (as claimed): an invocation that follows a returned one on an unchanged
\* input set, and meets no I/O failure, writes nothing, notifies nothing and
\* leaves the sprite and the manifest byte-identical.
C1_SecondRunWritesNothing ==
  (pc = "done" /\ sameAsPrev /\ ~faulted) => NothingWritten

\* C1 (amended): the same, provided the sprite and the manifest are not the
\* same file (fileName is not "types.ts" while withTypes is set).
C1_SecondRunWritesNothingDistinctPaths ==
  (pc = "done" /\ sameAsPrev /\ ~faulted /\ ~(withTypes /\ fileName = TypesTs))
    => NothingWritten

\* A second invocation on two icons, manifest enabled, that compared both
\* files and returned.
C1_Witness ==
  /\ pc = "done" /\ sameAsPrev /\ ~faulted
  /\ withTypes /\ fileName = SpriteSvg
  /\ Len(calls) = 2
  /\ Len(SymbolsIn(calls[1].new)) = 2
  /\ \A k \in DOMAIN calls : calls[k].readOk

\* C2: a call of writeIfChanged that returned wrote nothing and notified
\* nothing when the read succeeded and the content was equal; otherwise it
\* left the candidate content on disk by exactly one write and notified
\* exactly once, after the write.
C2_ChangeDetection ==
  /\ \A k \in DOMAIN calls :
       ~calls[k].threw =>
         IF calls[k].readOk /\ calls[k].before = OnDisk(calls[k].new)
           THEN /\ calls[k].tries = 0
                /\ calls[k].notes = 0
                /\ calls[k].after = calls[k].before
           ELSE /\ calls[k].oks = 1
                /\ calls[k].notes = 1
                /\ calls[k].after = OnDisk(calls[k].new)
  /\ \A j \in DOMAIN log :
       log[j].ev = "notify" => (j > 1 /\ log[j - 1].ev = "write")
  /\ \A j \in DOMAIN log :
       log[j].ev = "write" => (j < Len(log) /\ log[j + 1].ev = "notify")

\* One invocation in which the sprite was found equal and left alone, and
\* the manifest, whose read failed, was written.
C2_Witness ==
  /\ pc = "done"
  /\ Len(calls) = 2
  /\ calls[1].readOk /\ calls[1].before = OnDisk(calls[1].new) /\ calls[1].tries = 0
  /\ ~calls[2].readOk /\ calls[2].oks = 1 /\ calls[2].notes = 1
  /\ NotifiesIn(log) = 1

\* C3 (as claimed): a run with the manifest enabled that completes on a
\* non-empty file set lists in the manifest exactly the symbol ids of the
\* sprite, each once.
C3_ManifestEqualsSprite ==
  (pc = "done" /\ withTypes /\ files # <<>>) =>
    /\ Range(ManifestIds(calls[2].new)) = Range(SymbolIds(calls[1].new))
    /\ NoDuplicates(ManifestIds(calls[2].new))
    /\ NoDuplicates(SymbolIds(calls[1].new))

\* C4 (as claimed): a call of writeIfChanged in which a write failed made no
\* second write, notified nothing and rejected, failing the invocation.
C4_WriteFailureNotRetried ==
  \A k \in DOMAIN calls :
    calls[k].fails >= 1 =>
      /\ calls[k].tries = 1
      /\ calls[k].notes = 0
      /\ calls[k].threw
      /\ pc = "failed"

\* C5 (as claimed): an invocation is rejected only by a failure of mkdir or
\* of a write of an output file, never by the failure of one icon file.
C5_OnlyMkdirAndWriteAreFatal ==
  pc = "failed" => err \in {"mkdir", "write"}

\* While the tasks are awaited, one of them is pending on a file that is
\* there to read: the invocation is never stuck short of Promise.all.
TasksCanGoOn ==
  pc = "reading" =>
    \E i \in DOMAIN files : results[i].st = "pending" /\ inFiles[files[i]].exists

\* C6: when exactly one of the N discovered files lacks a root element, the
\* sprite has N-1 symbols, those of the other files, and nothing else; the
\* skipped file has its warning; the run is rejected by nothing but a failed
\* I/O operation and can otherwise always go on, and a returned run leaves
\* that sprite on disk.
C6_SkipIsolation ==
  (files # <<>> /\ Cardinality(Rootless) = 1) =>
    /\ \A k \in DOMAIN AllCalls :
         AllCalls[k].stage = "sprite" =>
           /\ Len(SymbolsIn(AllCalls[k].new)) = Len(files) - 1
           /\ Len(AllCalls[k].new) = Len(SpriteText(<<>>)) + Len(files) - 1
           /\ SymbolIds(AllCalls[k].new) = NamesOf(Rooted)
           /\ SelectSeq(log, LAMBDA e : e.ev = "warn")
                = <<NoSvgTagWarning(files[CHOOSE i \in Rootless : TRUE])>>
    /\ pc = "failed" => (faulted /\ err \in {"mkdir", "read", "write"})
    /\ TasksCanGoOn
    /\ pc = "done" =>
         /\ calls # <<>>
         /\ calls[1].stage = "sprite"
         /\ calls[1].after = OnDisk(calls[1].new)

\* A returned run over two files, the first of which lacks a root element.
C6_Witness ==
  /\ pc = "done"
  /\ Len(files) = 2
  /\ Rootless = {1}
  /\ Len(SymbolsIn(outFiles[fileName].text)) = 1
  /\ calls[1].oks = 1

\* C7: whatever the order the tasks completed in, the symbols of the sprite
\* are those of the files that have a root element, in discovery order, and
\* the manifest lists the identifiers of all the files in discovery order.
C7_DiscoveryOrder ==
  \A k \in DOMAIN AllCalls :
    /\ AllCalls[k].stage = "sprite" =>
         SymbolsIn(AllCalls[k].new)
           = [j \in DOMAIN Rooted |-> Normalize(inFiles[Rooted[j]], IconId(Rooted[j]))]
    /\ AllCalls[k].stage = "types" =>
         /\ ManifestIds(AllCalls[k].new) = NamesOf(files)
         /\ ManifestElems(AllCalls[k].new) = NamesOf(files)

\* A returned run whose tasks completed last file first, with two symbols
\* and a manifest.
C7_Witness ==
  /\ pc = "done"
  /\ Len(calls) = 2
  /\ Len(files) = 2
  /\ doneOrder = <<2, 1>>
  /\ SymbolIds(calls[1].new) = <<IdClose, IdArrowRight>>
  /\ ManifestIds(calls[2].new) = <<IdClose, IdArrowRight>>

\* C10: an invocation that discovers no icon file warns once and returns;
\* it makes no call of mkdir or writeIfChanged, and leaves the output
\* directory and the files in it as they were.
C10_EmptyInput ==
  (pc # "idle" /\ (files = <<>> \/ Glob(InputView(inFiles, outFiles)) = <<>>)) =>
    /\ pc = "done"
    /\ files = <<>>
    /\ log = <<NoSvgFilesWarning>>
    /\ calls = <<>>
    /\ outDirExists = outAtStart.dir
    /\ outFiles = outAtStart.files

\* An invocation on an empty input root returned, with no output directory
\* made.
C10_Witness ==
  /\ pc = "done"
  /\ Glob(InputView(inFiles, outFiles)) = <<>>
  /\ ~outDirExists
  /\ log = <<NoSvgFilesWarning>>

\* C10 also where outputs of an earlier run exist: they are left alone.
C10_WitnessKeepsOld ==
  /\ pc = "done"
  /\ Glob(InputView(inFiles, outFiles)) = <<>>
  /\ Len(SymbolsIn(outFiles[SpriteSvg].text)) > 0

\* C16: every symbol of a composed sprite is its file's root element renamed
\* to "symbol": its attributes are the root's attributes without xmlns,
\* xmlns:xlink, version, width and height, with id set to the derived
\* identifier in place of any id the file carried; the other attributes and
\* the inner markup are the file's.
C16_SymbolAttributes ==
  \A k \in DOMAIN AllCalls :
    AllCalls[k].stage = "sprite" =>
      LET syms == SymbolsIn(AllCalls[k].new)
      IN /\ Len(syms) = Len(Rooted)
         /\ \A j \in DOMAIN syms :
              LET doc == inFiles[Rooted[j]]
              IN /\ syms[j].tag = "symbol"
                 /\ syms[j].id = IconId(Rooted[j])
                 /\ "id" \in syms[j].attrs
                 /\ syms[j].attrs \ {"id"}
                      = {a \in doc.attrs :
                           a \notin {"xmlns", "xmlns:xlink", "version",
                                     "width", "height", "id"}}
                 /\ syms[j].inner = doc.inner

\* A sprite on disk with two symbols: one from a file that carried xmlns,
\* width, height and viewBox, one from a file that carried its own id,
\* version, xmlns:xlink and fill.
C16_Witness ==
  /\ pc = "done"
  /\ fileName = SpriteSvg
  /\ Len(files) = 2
  /\ {inFiles[files[1]], inFiles[files[2]]} = {SvgPlain, SvgOther}
  /\ outFiles[fileName] = OnDisk(calls[1].new)
  /\ {l.attrs : l \in Range(SymbolsIn(outFiles[fileName].text))}
       = {{"id", "viewBox"}, {"id", "fill"}}

\* The calls of writeIfChanged that read, and may write, the manifest's path.
OnManifest(k) == AllCalls[k].path = TypesTs

\* The sprite's call of writeIfChanged returned before call k was made.
AfterSpriteStep(k) ==
  /\ k = 2
  /\ calls # <<>>
  /\ calls[1].stage = "sprite"
  /\ ~calls[1].threw

\* mkdir rejected, or the sprite's write did.
FailedBeforeManifest ==
  /\ pc = "failed"
  /\ \/ err = "mkdir"
     \/ err = "write" /\ calls[Len(calls)].stage = "sprite"

ManifestUntouched == outFiles[TypesTs] = outAtStart.files[TypesTs]

\* C18 (as claimed): within an invocation the file at the manifest's path is
\* read or written only after the sprite's call of writeIfChanged returned;
\* it is left as it was when mkdir or the sprite's write fails; and it is
\* neither read nor written when withTypes is unset.
C18_SpriteBeforeManifest ==
  /\ \A k \in DOMAIN AllCalls : OnManifest(k) => (withTypes /\ AfterSpriteStep(k))
  /\ FailedBeforeManifest => ManifestUntouched
  /\ ~withTypes => ManifestUntouched

\* C18 (amended): the same, provided the sprite is not itself written to the
\* manifest's path (fileName is not "types.ts").
C18_SpriteBeforeManifestDistinctPaths ==
  fileName # TypesTs => C18_SpriteBeforeManifest

\* A returned invocation that wrote the sprite and then, in its second call,
\* the manifest.
C18_Witness ==
  /\ pc = "done"
  /\ withTypes /\ fileName = SpriteSvg
  /\ Len(calls) = 2
  /\ calls[1].stage = "sprite" /\ calls[1].oks = 1
  /\ calls[2].path = TypesTs /\ calls[2].oks = 1
  /\ outFiles[TypesTs] # outAtStart.files[TypesTs]

\* An invocation rejected by the sprite's write, the manifest enabled and
\* left as it was.
C18_WitnessSpriteWriteFails ==
  /\ pc = "failed" /\ err = "write"
  /\ withTypes /\ fileName = SpriteSvg
  /\ calls[Len(calls)].stage = "sprite"
  /\ outAtStart.files[TypesTs] = Stale

\* The identifiers of the icon files that are under the input root and hold
\* a root element.
FreshIds ==
  {IconId(f) : f \in {g \in IconPaths : inFiles[g].exists /\ inFiles[g].root}}

SpriteIdsOnDisk == Range(SymbolIds(outFiles[fileName].text))

\* C17 (as claimed): after any creations, deletions and changes of icon
\* files, the last of them followed by an invocation that returned, the
\* symbol ids of the sprite on disk are the identifiers of the icon files
\* that are there and hold a root element.
C17_SpriteFreshness ==
  pc = "done" => SpriteIdsOnDisk = FreshIds

\* C17 (amended): the same, provided that invocation discovered at least one
\* icon file and the sprite and the manifest are not the same file.
C17_SpriteFreshnessNonEmpty ==
  (pc = "done" /\ files # <<>> /\ ~(withTypes /\ fileName = TypesTs))
    => SpriteIdsOnDisk = FreshIds

\* An invocation that found a sprite of two symbols, one icon having been
\* deleted since, and left a sprite with the symbol of the icon that is
\* there.
C17_Witness ==
  /\ pc = "done"
  /\ Len(files) = 1
  /\ Len(SymbolsIn(outAtStart.files[fileName].text)) = 2
  /\ calls[1].oks = 1
  /\ SpriteIdsOnDisk = FreshIds
  /\ Cardinality(FreshIds) = 1

(***************************************************************************)
(* Claims about the hooks (under SpecPlugin).                              *)
(***************************************************************************)
\* C11 (as claimed): the cwd override has no effect on what is generated: a
\* call of a hook starts an invocation exactly when the same call, on the
\* same file system, of the plugin configured without cwd (all else equal)
\* starts one.
C11_CwdHasNoEffect ==
  hostEvent.hook # "none" => started = twinStarted

\* C12 (as claimed): configResolved starts one invocation when no sprite is
\* at the path the pipeline writes it to and none when one is there; and
\* once an invocation it started has returned from a non-empty icon set, the
\* sprite is at the path the existence test inspects.
C12_InitialResolve ==
  hostEvent.hook = "configResolved" =>
    /\ started = ~hadSprite
    /\ (started /\ pc = "done" /\ files # <<>>) => ExistsAt(OutputSvgPath(cwd))

\* C13 (as claimed): a report that a file was created, deleted or changed
\* starts an invocation if the file is a .svg under the input root, and
\* starts none if it is not under the input root or is no .svg.
C13_ChangeTriggers ==
  hostEvent.hook \in {"watchChange", "handleHotUpdate"} =>
    started = (UnderInputRoot(hostEvent.file) /\ EndsWith(hostEvent.file, DotSvg))

\* C14 (as claimed, the chain bounded): with the icon files left alone and
\* every write of the pipeline reported to the hooks, whatever the input
\* directory, output directory and file name, the reports of the pipeline's
\* own writes start fewer than MaxChain invocations in a row.
C14_NoRegenerationLoop ==
  chain < MaxChain

(***************************************************************************)
(* Claims about overlapping calls of the hooks (under SpecConc).           *)
(***************************************************************************)
\* The calls of writeIfChanged of two invocations are both between their
\* read and their write of the same file.
WritersInterleaved ==
  /\ pc \in {"w_read", "w_write", "w_catch"}
  /\ parked.pc \in {"w_read", "w_write", "w_catch"}
  /\ w.path = parked.w.path

\* C15 (as claimed): at most one invocation is in progress at any time: no
\* hook starts an invocation while one it started earlier has not returned,
\* so no call of writeIfChanged is interleaved with another on the same file.
C15_SerializedInvocations ==
  /\ ~(InProgress(pc) /\ InProgress(parked.pc))
  /\ ~WritersInterleaved

\* What the overlap costs: once both invocations have returned, the sprite
\* on disk has the symbols of the icons that are there.
FreshAfterOverlap ==
  (pc = "done" /\ parked = NoInv /\ files # <<>>) => SpriteIdsOnDisk = FreshIds

====
